---- MODULE Spec2Model ----
(***************************************************************************)
(* A model of the BombParty game object of helper_objects.py: the party,   *)
(* the turn order, the countdown, the used words, the required fragment    *)
(* and the settings, with one action per method.                           *)
(*                                                                         *)
(* Strings the code inspects character by character (chat messages, raw    *)
(* setting values, letter fragments, difficulty names) are sequences of    *)
(* one-character strings.  Times are whole ticks of perf_counter(); the    *)
(* code's float subtraction is modelled on integers.                       *)
(***************************************************************************)
EXTENDS Integers, Sequences, FiniteSets, TLC

VARIABLES
    in_progress,            \* BombParty.in_progress
    started,                \* BombParty.started
    used_words,             \* BombParty.used_words, a list
    party,                  \* BombParty.party, a dict: user -> [user, lives]
    current_player_index,   \* BombParty.current_player_index, 0-based
    current_letters,        \* BombParty.current_letters
    bomb_start_time,        \* BombParty.bomb_start_time
    turn_order,             \* BombParty.turn_order, a list of users
    timer,                  \* BombParty.timer
    bomb_settings,          \* BombParty.bomb_settings
    clock,                  \* the value perf_counter() returns now
    pc,                     \* "idle", or "next_player" inside its while loop
    player,                 \* next_player's local variable `player`
    called_at               \* current_player_index when next_player was called

vars == <<in_progress, started, used_words, party, current_player_index,
          current_letters, bomb_start_time, turn_order, timer, bomb_settings,
          clock, pc, player, called_at>>

----------------------------------------------------------------------------
(* Bounds of the model.                                                    *)

\* perf_counter() is followed up to this tick
MaxClock == 13
\* at most this many words are recorded between two on_close calls
MaxWords == 2
\* on_explode is followed until a player owes this many lives
MaxDebt == 1

\* the chat users that may join
Users == {"ann", "bob", "cy"}

\* the user value of "no player" (current_player returned None)
NoUser == "none"

----------------------------------------------------------------------------
(* Characters and strings.  A character is one of U+0000..U+00FF, the     *)
(* characters a string of this module can hold.  Among them str.lower()    *)
(* changes A..Z and the capitals U+00C0..U+00DE other than the             *)
(* multiplication sign U+00D7, each to the character 32 places after it.   *)

UpperCase == <<"A","B","C","D","E","F","G","H","I","J","K","L","M",
               "N","O","P","Q","R","S","T","U","V","W","X","Y","Z",
               "À","Á","Â","Ã","Ä","Å","Æ","Ç","È","É","Ê","Ë","Ì","Í","Î","Ï",
               "Ð","Ñ","Ò","Ó","Ô","Õ","Ö","Ø","Ù","Ú","Û","Ü","Ý","Þ">>
LowerCase == <<"a","b","c","d","e","f","g","h","i","j","k","l","m",
               "n","o","p","q","r","s","t","u","v","w","x","y","z",
               "à","á","â","ã","ä","å","æ","ç","è","é","ê","ë","ì","í","î","ï",
               "ð","ñ","ò","ó","ô","õ","ö","ø","ù","ú","û","ü","ý","þ">>
Digits == <<"0","1","2","3","4","5","6","7","8","9">>

\* str.lower() on one character
LowerChar(c) ==
    IF \E i \in 1..Len(UpperCase) : UpperCase[i] = c
    THEN LowerCase[CHOOSE i \in 1..Len(UpperCase) : UpperCase[i] = c]
    ELSE c

\* str.lower()
Lower(s) == [i \in 1..Len(s) |-> LowerChar(s[i])]

\* `sub in s` for strings
Contains(s, sub) ==
    \E i \in 0..(Len(s) - Len(sub)) :
        \A j \in 1..Len(sub) : s[i + j] = sub[j]

\* `x in list`
InList(x, list) == \E i \in 1..Len(list) : list[i] = x

Max(a, b) == IF a >= b THEN a ELSE b

----------------------------------------------------------------------------
(* int(value) on a str: surrounding whitespace is stripped, one sign is    *)
(* allowed, then digits, single underscores allowed between digits.  Of    *)
(* the characters U+0000..U+00FF only 0..9 are decimal digits.             *)

IsDigit(c) == \E i \in 1..10 : Digits[i] = c
DigitValue(c) == (CHOOSE i \in 1..10 : Digits[i] = c) - 1

\* the characters int() strips from both ends of a string: blank, tab, line
\* feed, carriage return, form feed, vertical tab (U+000B), next line
\* (U+0085) and no-break space (U+00A0); not the separators U+001C..U+001F
Whitespace ==
    { " ", "\t", "\n", "\r", "\f", "", "", " " }

\* the stripping int() does: s without the whitespace at either end
Strip(s) ==
    IF s = <<>> \/ (Head(s) \notin Whitespace /\ s[Len(s)] \notin Whitespace) THEN s
    ELSE IF \A i \in 1..Len(s) : s[i] \in Whitespace THEN <<>>
    ELSE SubSeq(s,
                CHOOSE i \in 1..Len(s) :
                    s[i] \notin Whitespace /\ \A j \in 1..(i - 1) : s[j] \in Whitespace,
                CHOOSE i \in 1..Len(s) :
                    s[i] \notin Whitespace /\ \A j \in (i + 1)..Len(s) : s[j] \in Whitespace)

Unsigned(s) ==
    IF s # <<>> /\ Head(s) \in {"+", "-"} THEN Tail(s) ELSE s

\* sys.get_int_max_str_digits(): int() raises ValueError on a str that holds
\* more digits than this
int_max_str_digits == 4300

NotUnderscore(c) == c # "_"

\* the digits int() counts against the limit: what is left of the sign, the
\* underscores aside
DigitCount(b) == Len(SelectSeq(b, NotUnderscore))

IsIntLiteral(s) ==
    LET b == Unsigned(Strip(s)) IN
    /\ b # <<>>
    /\ DigitCount(b) <= int_max_str_digits
    /\ \A i \in 1..Len(b) : IsDigit(b[i]) \/ b[i] = "_"
    /\ IsDigit(b[1]) /\ IsDigit(b[Len(b)])
    /\ \A i \in 1..(Len(b) - 1) : ~(b[i] = "_" /\ b[i + 1] = "_")

\* the digits of d from the first that is not a zero on
Significant(d) ==
    IF \A i \in 1..Len(d) : d[i] = "0" THEN <<>>
    ELSE SubSeq(d,
                CHOOSE i \in 1..Len(d) :
                    d[i] # "0" /\ \A j \in 1..(i - 1) : d[j] = "0",
                Len(d))

RECURSIVE DigitsValue(_, _)
DigitsValue(b, acc) ==
    IF b = <<>> THEN acc
    ELSE IF Head(b) = "_" THEN DigitsValue(Tail(b), acc)
    ELSE DigitsValue(Tail(b), 10 * acc + DigitValue(Head(b)))

\* the digits that make the number int(s): without whitespace, sign,
\* underscores and leading zeros
SignificantDigits(s) ==
    Significant(SelectSeq(Unsigned(Strip(s)), NotUnderscore))

\* the digits of 2^31 - 1, the largest integer there is here; int() has no
\* largest
Widest == <<"2","1","4","7","4","8","3","6","4","7">>

\* d <= e for digit sequences of one length
AtMost(d, e) ==
    \/ d = e
    \/ \E i \in 1..Len(d) :
          /\ DigitValue(d[i]) < DigitValue(e[i])
          /\ \A j \in 1..(i - 1) : d[j] = e[j]

\* whether the number of significant digits d is at most 2^31 - 1
Fits(d) ==
    Len(d) < Len(Widest) \/ (Len(d) = Len(Widest) /\ AtMost(d, Widest))

\* the value of int(s) when IsIntLiteral(s); otherwise int(s) raises
\* ValueError.  A number beyond 2^31 - 1 on either side is held exactly as
\* its decimal numeral, the characters of str(int(s)).
IntOf(s) ==
    LET d == SignificantDigits(s)
        negative == Head(Strip(s)) = "-"
    IN  IF Fits(d)
        THEN IF negative THEN 0 - DigitsValue(d, 0) ELSE DigitsValue(d, 0)
        ELSE IF negative THEN <<"-">> \o d ELSE d

----------------------------------------------------------------------------
(* Settings.                                                               *)

Easy == <<"e","a","s","y">>
Medium == <<"m","e","d","i","u","m">>
Hard == <<"h","a","r","d">>
Nightmare == <<"n","i","g","h","t","m","a","r","e">>
Impossible == <<"i","m","p","o","s","s","i","b","l","e">>

valid_bomb_settings ==
    [difficulty |-> {Easy, Medium, Hard, Nightmare, Impossible},
     timer |-> 5..60,
     minimum_time |-> 0..10,
     lives |-> 1..5]

default_settings ==
    [difficulty |-> Medium, timer |-> 30, minimum_time |-> 5, lives |-> 3]

----------------------------------------------------------------------------
(* The letter-frequency tables of data/2strings.json and data/3strings.json *)
(* (a sample of them: fragment, amount), and the five pools built from them.*)

TwoStrings ==
    { << <<"i","n">>, 10000 >>,
      << <<"a","b">>, 9999 >>,
      << <<"c","k">>, 4999 >>,
      << <<"z","z">>, 999 >>,
      << <<"q","j">>, 499 >> }

ThreeStrings ==
    { << <<"i","n","g">>, 5000 >>,
      << <<"a","-","b">>, 10000 >>,
      << <<"x","-","z">>, 500 >> }

\* letters = json.load(f); letters.update(json.load(f3))
Letters ==
    ThreeStrings \cup
    { p \in TwoStrings : ~(\E q \in ThreeStrings : q[1] = p[1]) }

HasSeparator(let) == InList("-", let)

\* construct_bomb_party_letters()[difficulty], as the set of its entries
bomb_party_letters(difficulty) ==
    IF difficulty = Easy THEN
        { p[1] : p \in { q \in Letters : q[2] >= 10000 /\ ~HasSeparator(q[1]) } }
    ELSE IF difficulty = Medium THEN
        { p[1] : p \in { q \in Letters :
                           10000 > q[2] /\ q[2] >= 5000 /\ ~HasSeparator(q[1]) } }
    ELSE IF difficulty = Hard THEN
        { p[1] : p \in { q \in Letters :
                           \/ (5000 > q[2] /\ q[2] >= 1000)
                           \/ (q[2] >= 5000 /\ HasSeparator(q[1])) } }
    ELSE IF difficulty = Nightmare THEN
        { p[1] : p \in { q \in Letters : 1000 > q[2] /\ q[2] >= 500 } }
    ELSE
        { p[1] : p \in { q \in Letters : 500 > q[2] } }

----------------------------------------------------------------------------
(* The party: a dict from user to BombPartyPlayer, as a function from the  *)
(* users in it to their records.                                           *)

BombPartyPlayer(user, lives) == [user |-> user, lives |-> lives]

\* BombPartyPlayer.dead
dead(p) == p.lives = 0

\* the empty dict
EmptyParty == [u \in {} |-> BombPartyPlayer(u, 0)]

\* party.update({user: record})
With(p, user, record) ==
    [u \in DOMAIN p \cup {user} |-> IF u = user THEN record ELSE p[u]]

\* party[user].lives = n
WithLives(p, user, n) == [p EXCEPT ![user].lives = n]

\* del party[user]
Without(p, user) == [u \in DOMAIN p \ {user} |-> p[u]]

\* a shuffle that draws every position afresh, so that members may repeat
ShufflesRepeating(keys) == [1..Cardinality(keys) -> keys]

\* the orders in which random.shuffle can leave list(keys)
Shuffles(keys) ==
    { s \in [1..Cardinality(keys) -> keys] :
        \A u \in keys : \E i \in 1..Cardinality(keys) : s[i] = u }

\* BombParty.current_player: the player's record, or one for None
NoPlayer == BombPartyPlayer(NoUser, 0)

current_player_of(order, index, p) ==
    IF Len(order) = 0 THEN NoPlayer
    ELSE p[order[index + 1]]

current_player == current_player_of(turn_order, current_player_index, party)

\* BombParty.get_winner: the winner's user, or NoUser for None
players_left(p) == { u \in DOMAIN p : p[u].lives # 0 }

get_winner_of(p) ==
    IF Cardinality(players_left(p)) = 1
    THEN CHOOSE u \in players_left(p) : TRUE
    ELSE NoUser

get_winner == get_winner_of(party)

\* on_lives_set passing over the dead players
on_lives_set_alive(p, lives) ==
    [u \in DOMAIN p |-> IF dead(p[u]) THEN p[u] ELSE [p[u] EXCEPT !.lives = lives]]

\* BombParty.on_lives_set
on_lives_set(p, lives) == [u \in DOMAIN p |-> [p[u] EXCEPT !.lives = lives]]

\* check_message without `message = message.lower()`
check_message_of_as_typed(message, words, letters) ==
    IF InList(message, words) THEN "already_used"
    ELSE IF ~Contains(message, letters) THEN "missing_letters"
    ELSE IF Len(message) = Len(letters) THEN "letters_itself"
    ELSE "ok"

\* BombParty.check_message: the failure, or "ok" for None
check_message_of(message, words, letters) ==
    LET m == Lower(message) IN
    IF InList(m, words) THEN "already_used"
    ELSE IF ~Contains(m, letters) THEN "missing_letters"
    ELSE IF Len(m) = Len(letters) THEN "letters_itself"
    ELSE "ok"

check_message(message) == check_message_of(message, used_words, current_letters)

----------------------------------------------------------------------------
(* Inputs offered by the environment.                                      *)

\* `s * n` for strings
RECURSIVE Times(_, _)
Times(s, n) ==
    IF n <= 0 THEN <<>>
    ELSE LET half == Times(s, n \div 2)
         IN  IF n % 2 = 1 THEN half \o half \o s ELSE half \o half

\* the value '0' * 4300 + '2': one digit more than int() converts
Overlong == Times(<<"0">>, int_max_str_digits) \o <<"2">>

\* the value '0' * 4299 + '2': as many digits as int() converts, the number 2
Longest == Times(<<"0">>, int_max_str_digits - 1) \o <<"2">>

\* chat messages handed to on_word_used and check_message
Messages ==
    { <<"c","a","b">>, <<"C","a","b">>, <<"a","b">>, <<"É","a","b">> }

----------------------------------------------------------------------------
(* The state after BombParty.__init__ (set_default_values).                *)

Init ==
    /\ in_progress = FALSE
    /\ started = FALSE
    /\ used_words = <<>>
    /\ party = EmptyParty
    /\ current_player_index = 0
    /\ current_letters = <<>>
    /\ bomb_start_time = 0
    /\ turn_order = <<>>
    /\ timer = 30
    /\ bomb_settings = default_settings
    /\ clock = 1
    /\ pc = "idle"
    /\ player = NoUser
    /\ called_at = 0

----------------------------------------------------------------------------
(* One action per method.  A method runs to completion before the next     *)
(* call: every call waits for pc = "idle".                                 *)

\* time passes between two calls: perf_counter() moves on by d
Tick(d) ==
    /\ pc = "idle"
    /\ clock + d <= MaxClock
    /\ clock' = clock + d
    /\ UNCHANGED <<in_progress, started, used_words, party, current_player_index,
                   current_letters, bomb_start_time, turn_order, timer,
                   bomb_settings, pc, player, called_at>>

add_player(user) ==
    /\ pc = "idle"
    /\ party' = IF user \notin DOMAIN party
                THEN With(party, user, BombPartyPlayer(user, bomb_settings.lives))
                ELSE party
    /\ UNCHANGED <<in_progress, started, used_words, current_player_index,
                   current_letters, bomb_start_time, turn_order, timer,
                   bomb_settings, clock, pc, player, called_at>>

\* remove_player without the `del` branch: lives set to 0 in every phase
remove_player_always_soft(user) ==
    /\ pc = "idle"
    /\ party' = IF user \in DOMAIN party
                THEN WithLives(party, user, 0)
                ELSE party
    /\ UNCHANGED <<in_progress, started, used_words, current_player_index,
                   current_letters, bomb_start_time, turn_order, timer,
                   bomb_settings, clock, pc, player, called_at>>

remove_player(user) ==
    /\ pc = "idle"
    /\ party' = IF user \in DOMAIN party
                THEN IF started THEN WithLives(party, user, 0)
                     ELSE Without(party, user)
                ELSE party
    /\ UNCHANGED <<in_progress, started, used_words, current_player_index,
                   current_letters, bomb_start_time, turn_order, timer,
                   bomb_settings, clock, pc, player, called_at>>

on_in_progress ==
    /\ pc = "idle"
    /\ in_progress' = TRUE
    /\ UNCHANGED <<started, used_words, party, current_player_index,
                   current_letters, bomb_start_time, turn_order, timer,
                   bomb_settings, clock, pc, player, called_at>>

on_start ==
    /\ pc = "idle"
    /\ turn_order' \in Shuffles(DOMAIN party)
    /\ timer' = bomb_settings.timer
    /\ bomb_start_time' = clock
    /\ started' = TRUE
    /\ UNCHANGED <<in_progress, used_words, party, current_player_index,
                   current_letters, bomb_settings, clock, pc, player, called_at>>

\* on_word_used charging the whole elapsed time, without the grace period
on_word_used_no_grace(message) ==
    /\ pc = "idle"
    /\ Len(used_words) < MaxWords
    /\ timer' = timer - Max(0, clock - bomb_start_time)
    /\ used_words' = Append(used_words, Lower(message))
    /\ UNCHANGED <<in_progress, started, party, current_player_index,
                   current_letters, bomb_start_time, turn_order,
                   bomb_settings, clock, pc, player, called_at>>

on_word_used(message) ==
    /\ pc = "idle"
    /\ Len(used_words) < MaxWords
    /\ timer' = timer - Max(0, clock - bomb_start_time - bomb_settings.minimum_time)
    /\ used_words' = Append(used_words, Lower(message))
    /\ UNCHANGED <<in_progress, started, party, current_player_index,
                   current_letters, bomb_start_time, turn_order,
                   bomb_settings, clock, pc, player, called_at>>

\* on_explode without `self.bomb_start_time = 0`
on_explode_keeping_start ==
    /\ pc = "idle"
    /\ current_player.lives > 0 - MaxDebt
    /\ timer' = bomb_settings.timer
    /\ IF Len(turn_order) = 0
       THEN party' = party
       ELSE party' = WithLives(party, current_player.user, current_player.lives - 1)
    /\ UNCHANGED <<in_progress, started, used_words, current_player_index,
                   current_letters, bomb_start_time, turn_order, bomb_settings,
                   clock, pc, player, called_at>>

\* With no turn order current_player is None and `player.lives -= 1` raises
\* AttributeError, after the countdown was reset.
on_explode ==
    /\ pc = "idle"
    /\ current_player.lives > 0 - MaxDebt
    /\ timer' = bomb_settings.timer
    /\ bomb_start_time' = 0
    /\ IF Len(turn_order) = 0
       THEN party' = party
       ELSE party' = WithLives(party, current_player.user, current_player.lives - 1)
    /\ UNCHANGED <<in_progress, started, used_words, current_player_index,
                   current_letters, turn_order, bomb_settings, clock, pc, player,
                   called_at>>

\* on_close keeping the settings of the game that ended
on_close_keeping_settings ==
    /\ pc = "idle"
    /\ in_progress' = FALSE
    /\ started' = FALSE
    /\ used_words' = <<>>
    /\ party' = EmptyParty
    /\ current_player_index' = 0
    /\ current_letters' = <<>>
    /\ bomb_start_time' = 0
    /\ turn_order' = <<>>
    /\ timer' = 30
    /\ UNCHANGED <<bomb_settings, clock, pc, player, called_at>>

on_close ==
    /\ pc = "idle"
    /\ in_progress' = FALSE
    /\ started' = FALSE
    /\ used_words' = <<>>
    /\ party' = EmptyParty
    /\ current_player_index' = 0
    /\ current_letters' = <<>>
    /\ bomb_start_time' = 0
    /\ turn_order' = <<>>
    /\ timer' = 30
    /\ bomb_settings' = default_settings
    /\ UNCHANGED <<clock, pc, player, called_at>>

\* next_player up to its while loop: `player = self.current_player.user`
\* raises AttributeError when current_player is None.
next_player ==
    /\ pc = "idle"
    /\ IF Len(turn_order) = 0
       THEN UNCHANGED <<pc, player, called_at>>
       ELSE /\ player' = current_player.user
            /\ pc' = "next_player"
            /\ called_at' = current_player_index
    /\ UNCHANGED <<in_progress, started, used_words, party, current_player_index,
                   current_letters, bomb_start_time, turn_order, timer,
                   bomb_settings, clock>>

\* the loop's condition with `and` for `or`
next_player_condition_and ==
    current_player.lives = 0 /\ current_player.user = player

\* the while loop's condition
next_player_condition ==
    current_player.lives = 0 \/ current_player.user = player

\* the index after one pass through the loop's body
next_index(index, length) ==
    IF index # length - 1 THEN 1 + index ELSE 0

\* one pass through the loop's body
next_player_loop ==
    /\ pc = "next_player"
    /\ next_player_condition
    /\ current_player_index' = next_index(current_player_index, Len(turn_order))
    /\ UNCHANGED <<in_progress, started, used_words, party, current_letters,
                   bomb_start_time, turn_order, timer, bomb_settings, clock,
                   pc, player, called_at>>

\* the loop's exit and the statement after it
next_player_return ==
    /\ pc = "next_player"
    /\ ~next_player_condition
    /\ bomb_start_time' = clock
    /\ pc' = "idle"
    /\ player' = NoUser
    /\ called_at' = 0
    /\ UNCHANGED <<in_progress, started, used_words, party, current_player_index,
                   current_letters, turn_order, timer, bomb_settings, clock>>

\* set_letters reading the default difficulty instead of the configured one
set_letters_default ==
    /\ pc = "idle"
    /\ current_letters' \in bomb_party_letters(default_settings.difficulty)
    /\ UNCHANGED <<in_progress, started, used_words, party, current_player_index,
                   bomb_start_time, turn_order, timer, bomb_settings, clock,
                   pc, player, called_at>>

\* random.choice raises IndexError on an empty pool
set_letters ==
    /\ pc = "idle"
    /\ IF bomb_party_letters(bomb_settings.difficulty) = {}
       THEN current_letters' = current_letters
       ELSE current_letters' \in bomb_party_letters(bomb_settings.difficulty)
    /\ UNCHANGED <<in_progress, started, used_words, party, current_player_index,
                   bomb_start_time, turn_order, timer, bomb_settings, clock,
                   pc, player, called_at>>

\* type(self.bomb_settings[setting])(value): str(value) for the difficulty,
\* int(value) for the others
Coercible(setting, value) ==
    setting = "difficulty" \/ IsIntLiteral(value)

Coerce(setting, value) ==
    IF setting = "difficulty" THEN value ELSE IntOf(value)

\* `value in self.valid_bomb_settings[setting]` for the coerced value; the
\* ranges end at 60, so a number held as a numeral is in none
InDomain(setting, value) ==
    IF setting # "difficulty" /\ ~Fits(SignificantDigits(value)) THEN FALSE
    ELSE Coerce(setting, value) \in valid_bomb_settings[setting]

\* set_setting's message without the test against valid_bomb_settings
set_setting_result_unchecked(setting, value) ==
    IF setting \notin DOMAIN bomb_settings THEN "not_a_setting"
    ELSE IF ~Coercible(setting, value) THEN "value_error"
    ELSE "changed"

\* the message set_setting returns
set_setting_result(setting, value) ==
    IF setting \notin DOMAIN bomb_settings THEN "not_a_setting"
    ELSE IF ~Coercible(setting, value) THEN "value_error"
    ELSE IF ~InDomain(setting, value) THEN "not_a_valid_value"
    ELSE "changed"

\* set_setting storing the coerced value before it is tested
set_setting_storing_first(setting, value) ==
    /\ pc = "idle"
    /\ IF setting \in DOMAIN bomb_settings /\ Coercible(setting, value)
       THEN /\ bomb_settings' =
                  [bomb_settings EXCEPT ![setting] = Coerce(setting, value)]
            /\ party' = IF setting = "lives"
                           /\ set_setting_result(setting, value) = "changed"
                        THEN on_lives_set(party, Coerce(setting, value))
                        ELSE party
       ELSE UNCHANGED <<bomb_settings, party>>
    /\ UNCHANGED <<in_progress, started, used_words, current_player_index,
                   current_letters, bomb_start_time, turn_order, timer,
                   clock, pc, player, called_at>>

set_setting(setting, value) ==
    /\ pc = "idle"
    /\ IF set_setting_result(setting, value) = "changed"
       THEN /\ bomb_settings' =
                  [bomb_settings EXCEPT ![setting] = Coerce(setting, value)]
            /\ party' = IF setting = "lives"
                        THEN on_lives_set(party, Coerce(setting, value))
                        ELSE party
       ELSE UNCHANGED <<bomb_settings, party>>
    /\ UNCHANGED <<in_progress, started, used_words, current_player_index,
                   current_letters, bomb_start_time, turn_order, timer,
                   clock, pc, player, called_at>>

----------------------------------------------------------------------------

(* The calls of a game whose concern is the players and the turn: three   *)
(* users, one message, the lives and timer settings; no time passes      *)
(* between calls.                                                          *)

TurnSettingInputs ==
    { <<"lives", <<"1">> >>, <<"lives", <<"0">> >>, <<"lives", <<"x">> >>,
      <<"timer", <<" ","5">> >>, <<"colour", <<"1">> >> }

TurnMessages == { <<"c","a","b">> }

Next ==
    \/ \E user \in Users : add_player(user)
    \/ \E user \in Users : remove_player(user)
    \/ on_start
    \/ \E message \in TurnMessages : on_word_used(message)
    \/ on_explode
    \/ on_close
    \/ next_player
    \/ next_player_loop
    \/ next_player_return
    \/ \E input \in TurnSettingInputs : set_setting(input[1], input[2])

Spec == Init /\ [][Next]_vars

\* the while loop of next_player keeps running once entered
FairSpec ==
    Spec /\ WF_vars(next_player_loop) /\ WF_vars(next_player_return)

----------------------------------------------------------------------------
(* The calls of a game whose concern is the countdown: two users, one      *)
(* message, the timer and minimum_time settings, and time passing.         *)

ClockUsers == {"ann", "bob"}

TickSteps == {3, 9}

ClockSettingInputs ==
    { <<"timer", <<"\t","5","\n">> >>, <<"timer", <<"6","1">> >>,
      <<"minimum_time", <<"0">> >>, <<"minimum_time", <<"-","1">> >> }

NextClock ==
    \/ \E d \in TickSteps : Tick(d)
    \/ \E user \in ClockUsers : add_player(user)
    \/ on_start
    \/ \E message \in TurnMessages : on_word_used(message)
    \/ on_explode
    \/ on_close
    \/ next_player
    \/ next_player_loop
    \/ next_player_return
    \/ \E input \in ClockSettingInputs : set_setting(input[1], input[2])

SpecClock == Init /\ [][NextClock]_vars

(* The calls of a game whose concern is the words and the letters: one     *)
(* user, three messages, the difficulty setting.                           *)

WordUsers == {"ann"}

WordSettingInputs ==
    { <<"difficulty", Hard>>, <<"difficulty", <<"H","a","r","d">> >>,
      <<"difficulty", Impossible>> }

NextWords ==
    \/ \E user \in WordUsers : add_player(user)
    \/ on_in_progress
    \/ on_start
    \/ \E message \in Messages : on_word_used(message)
    \/ set_letters
    \/ on_close
    \/ \E input \in WordSettingInputs : set_setting(input[1], input[2])

SpecWords == Init /\ [][NextWords]_vars

(* The calls of a game whose concern is the settings and the lifecycle:    *)
(* two users, one message, every setting with values on and past the edge  *)
(* of its domain; no time passes between calls.                            *)

LifeSettingInputs ==
    { <<"lives", <<"+","5">> >>, <<"lives", <<"6">> >>,
      <<"timer", <<"6","0">> >>, <<"timer", <<"4">> >>,
      <<"minimum_time", <<"1","0">> >>, <<"minimum_time", <<"1","1">> >>,
      <<"minimum_time", <<"t","e","n">> >>,
      <<"difficulty", Easy>>, <<"difficulty", <<"E","a","s","y">> >>,
      <<"timer", Overlong>>, <<"colour", <<"1">> >> }

NextLife ==
    \/ \E user \in ClockUsers : add_player(user)
    \/ on_in_progress
    \/ on_start
    \/ \E message \in TurnMessages : on_word_used(message)
    \/ set_letters
    \/ on_close
    \/ next_player
    \/ next_player_loop
    \/ next_player_return
    \/ \E input \in LifeSettingInputs : set_setting(input[1], input[2])

SpecLife == Init /\ [][NextLife]_vars

----------------------------------------------------------------------------
(* The calls of a game whose concern is what set_setting makes of a value: *)
(* two users who join, are removed and lose lives on the first turn, and   *)
(* among the values one of a digit more than int() converts.               *)

LimitSettingInputs ==
    { <<"lives", <<"1">> >>, <<"lives", <<"0">> >>, <<"lives", <<"x">> >>,
      <<"lives", Overlong>>,
      <<"timer", <<" ","5">> >>, <<"colour", <<"1">> >> }

NextLimit ==
    \/ \E user \in ClockUsers : add_player(user)
    \/ \E user \in ClockUsers : remove_player(user)
    \/ on_start
    \/ on_explode
    \/ \E input \in LimitSettingInputs : set_setting(input[1], input[2])

SpecLimit == Init /\ [][NextLimit]_vars

----------------------------------------------------------------------------
(* Properties of the players and the turn.                                 *)

Alive == { u \in DOMAIN party : party[u].lives > 0 }

\* C1: in every reachable state every player's lives is >= 0.
C1_LivesNeverNegative ==
    \A u \in DOMAIN party : party[u].lives >= 0

\* C3: between on_start and on_close, outside next_player, the entry of
\* turn_order at current_player_index is a player with lives > 0.
C3_ActivePlayerAlive ==
    (started /\ pc = "idle" /\ Len(turn_order) > 0) => current_player.lives > 0

\* a list holding every member of a set exactly once
IsPermutation(list, set) ==
    /\ Len(list) = Cardinality(set)
    /\ { list[i] : i \in 1..Len(list) } = set

\* C4: on_start leaves turn_order a permutation of the party members of that
\* moment, and add_player, remove_player, on_word_used, on_explode,
\* next_player and set_setting leave turn_order as it is.
C4_TurnOrderFixedAtStart ==
    [][ /\ on_start => IsPermutation(turn_order', DOMAIN party)
        /\ ( \/ \E user \in Users : add_player(user) \/ remove_player(user)
             \/ \E message \in TurnMessages : on_word_used(message)
             \/ on_explode
             \/ next_player \/ next_player_loop \/ next_player_return
             \/ \E input \in TurnSettingInputs : set_setting(input[1], input[2]) )
           => turn_order' = turn_order ]_vars

\* a player joined and another was removed after the start, and the turn
\* order still lists the three members of the start
C4_Witness ==
    /\ started
    /\ Len(turn_order) = 2
    /\ Cardinality(DOMAIN party) = 3
    /\ \E i \in 1..2 : party[turn_order[i]].lives = 0

\* C5: get_winner returns none when two or more players have lives > 0, the
\* player when exactly one has, and none when no player has.
C5_GetWinner ==
    /\ Cardinality(Alive) >= 2 => get_winner = NoUser
    /\ Cardinality(Alive) = 1 => get_winner \in Alive
    /\ Alive = {} => get_winner = NoUser

\* the turn_order entry met k steps after the index next_player was called at
Met(k) == turn_order[((called_at + k) % Len(turn_order)) + 1]

\* an entry of turn_order other than the caller's whose player has lives left
OtherLeft ==
    \E i \in 1..Len(turn_order) :
        turn_order[i] # player /\ party[turn_order[i]].lives # 0

\* C8: next_player terminates if and only if turn_order has an entry, other
\* than the player active at the call, whose player has non-zero lives;
\* otherwise its loop never ends.
C8_NextPlayerTerminatesIff ==
    /\ (pc = "next_player" /\ OtherLeft) ~> (pc = "idle")
    /\ [][ (pc = "next_player" /\ ~OtherLeft) => pc' = "next_player" ]_vars

\* the loop went round a turn order of three once and is back at the caller,
\* the only entry with lives left
C8_Witness ==
    /\ pc = "next_player"
    /\ Len(turn_order) = 3
    /\ ~OtherLeft
    /\ party[player].lives > 0
    /\ current_player_index = next_index(called_at, 3)

\* C9: when next_player terminates the active player differs from the one
\* active at the call and has lives > 0, it is the first such entry met
\* going round turn_order from the old index, every entry skipped is dead or
\* the caller, and no lives and no entry of turn_order has changed.
C9_NextPlayerLanding ==
    [][ /\ next_player_return =>
             \E k \in 1..Len(turn_order) :
                 /\ current_player_index' = (called_at + k) % Len(turn_order)
                 /\ Met(k) # turn_order[called_at + 1]
                 /\ party[Met(k)].lives > 0
                 /\ \A j \in 1..(k - 1) :
                        dead(party[Met(j)]) \/ Met(j) = turn_order[called_at + 1]
        /\ (pc = "next_player" \/ next_player) =>
             (party' = party /\ turn_order' = turn_order) ]_vars

\* C10: on_explode takes exactly one life from the active player, leaves the
\* other players' lives, the turn order and current_player_index as they
\* are, sets timer to the timer setting and bomb_start_time to 0.
C10_OnExplode ==
    [][ on_explode =>
          /\ timer' = bomb_settings.timer
          /\ bomb_start_time' = 0
          /\ turn_order' = turn_order
          /\ current_player_index' = current_player_index
          /\ DOMAIN party' = DOMAIN party
          /\ \A u \in DOMAIN party :
                party'[u].lives =
                    IF Len(turn_order) > 0 /\ u = turn_order[current_player_index + 1]
                    THEN party[u].lives - 1
                    ELSE party[u].lives ]_vars

\* the bomb went off on one of two players after the timer setting was changed
C10_Witness ==
    /\ started /\ pc = "idle"
    /\ bomb_start_time = 0
    /\ timer = 5 /\ bomb_settings.timer = 5
    /\ Len(turn_order) >= 2
    /\ party[turn_order[current_player_index + 1]].lives = bomb_settings.lives - 1
    /\ \E u \in DOMAIN party : party[u].lives = bomb_settings.lives

----------------------------------------------------------------------------
(* Properties of the countdown, the words and the letters.                 *)

\* C2: in a started game the remaining countdown is never negative after on_word_used has
\* applied its decay.
C2_TimerNeverNegative == started => timer >= 0

\* C6: used_words never holds the same word twice, compared without regard
\* to case.
C6_NoWordTwice ==
    \A i, j \in 1..Len(used_words) :
        i # j => Lower(used_words[i]) # Lower(used_words[j])

\* C7 as stated: in every reachable state current_letters is a member of the
\* pool of the configured difficulty.
C7_LettersAlwaysFromPool ==
    current_letters \in bomb_party_letters(bomb_settings.difficulty)

\* C7 as amended: every set_letters call that returns leaves current_letters
\* a member of the pool of the difficulty configured at that call; set_setting
\* leaves current_letters as it is, and on_close empties it.
C7_LettersFromPoolWhenSet ==
    [][ /\ (set_letters /\ bomb_party_letters(bomb_settings.difficulty) # {})
            => current_letters' \in bomb_party_letters(bomb_settings.difficulty)
        /\ (\E input \in WordSettingInputs : set_setting(input[1], input[2]))
            => current_letters' = current_letters
        /\ on_close => current_letters' = <<>> ]_vars

\* letters drawn under one difficulty are still current under another
C7_Witness ==
    /\ bomb_settings.difficulty = Hard
    /\ current_letters \in bomb_party_letters(Medium)
    /\ current_letters \notin bomb_party_letters(Hard)

----------------------------------------------------------------------------
(* Properties of remove_player and set_setting.                            *)

\* the lives of every player but `user` are what they were
OthersKeep(user) ==
    \A u \in DOMAIN party \ {user} : u \in DOMAIN party' /\ party'[u] = party[u]

\* C11: remove_player of a present user deletes the entry when the game has
\* not started and otherwise keeps it, in the party and in turn_order, with
\* lives 0; the other players, turn_order and current_player_index stay as
\* they are; for an absent user nothing changes.
C11_RemovePlayer ==
    [][ \A user \in Users :
          remove_player(user) =>
            /\ turn_order' = turn_order
            /\ current_player_index' = current_player_index
            /\ OthersKeep(user)
            /\ IF user \notin DOMAIN party THEN UNCHANGED vars
               ELSE IF started
                    THEN /\ DOMAIN party' = DOMAIN party
                         /\ party'[user].lives = 0
                    ELSE DOMAIN party' = DOMAIN party \ {user} ]_vars

\* a player who is not the active one has no lives left while the other two
\* of a started game hold all of theirs
C11_Witness ==
    /\ started /\ pc = "idle"
    /\ Len(turn_order) = 3
    /\ current_player_index = 0
    /\ bomb_start_time # 0
    /\ party[turn_order[1]].lives = bomb_settings.lives
    /\ party[turn_order[2]].lives = 0
    /\ party[turn_order[3]].lives = bomb_settings.lives

\* C12: a successful set_setting('lives', v) sets the lives of every player
\* in the party to v, before and after the start, dead players included; a
\* successful set_setting of another field changes no player's lives.
C12_LivesCascade ==
    [][ \A input \in LimitSettingInputs :
          (set_setting(input[1], input[2])
             /\ set_setting_result(input[1], input[2]) = "changed") =>
            IF input[1] = "lives"
            THEN /\ DOMAIN party' = DOMAIN party
                 /\ \A u \in DOMAIN party : party'[u].lives = IntOf(input[2])
            ELSE party' = party ]_vars

\* after the start and after a bomb went off, both players hold the new
\* lives setting again
C12_Witness ==
    /\ started /\ pc = "idle"
    /\ bomb_start_time = 0
    /\ Len(turn_order) = 2
    /\ bomb_settings.lives = 1
    /\ \A u \in DOMAIN party : party[u].lives = 1

\* the three ways set_setting fails
Failures == {"not_a_setting", "value_error", "not_a_valid_value"}

\* C13: set_setting with an unknown setting, a value that cannot be coerced
\* or a coerced value outside the domain returns a failure message and
\* leaves every setting, every player's lives and timer as they are.
C13_SetSettingFailure ==
    [][ \A input \in LimitSettingInputs :
          set_setting(input[1], input[2]) =>
            /\ set_setting_result(input[1], input[2]) \in Failures \cup {"changed"}
            /\ ( \/ input[1] \notin {"difficulty", "timer", "minimum_time", "lives"}
                 \/ (input[1] # "difficulty" /\ ~IsIntLiteral(input[2]))
                 \/ (input[1] # "difficulty" /\ IsIntLiteral(input[2])
                       /\ ~InDomain(input[1], input[2]))
                 \/ (input[1] = "difficulty"
                       /\ input[2] \notin valid_bomb_settings.difficulty) )
               => /\ set_setting_result(input[1], input[2]) \in Failures
                  /\ UNCHANGED <<bomb_settings, party, timer>> ]_vars

\* a started game whose players' lives and whose countdown differ from the
\* settings, where each kind of failure is on offer, among them a value of
\* one digit more than the longest int() converts; a number beyond 2^31 - 1
\* is outside the domain
C13_Witness ==
    /\ started /\ pc = "idle"
    /\ timer # bomb_settings.timer
    /\ \E u \in DOMAIN party : party[u].lives # bomb_settings.lives
    /\ \A f \in Failures :
          \E input \in LimitSettingInputs : set_setting_result(input[1], input[2]) = f
    /\ set_setting_result("lives", Overlong) = "value_error"
    /\ set_setting_result("lives", Longest) = "changed"
    /\ set_setting_result("timer", Widest \o <<"0">>) = "not_a_valid_value"

\* C14: in every reachable state each setting holds a value of its domain:
\* difficulty one of the five names, timer in 5..60, minimum_time in 0..10,
\* lives in 1..5.
C14_SettingsValid ==
    /\ bomb_settings.difficulty \in {Easy, Medium, Hard, Nightmare, Impossible}
    /\ bomb_settings.timer \in 5..60
    /\ bomb_settings.minimum_time \in 0..10
    /\ bomb_settings.lives \in 1..5

\* every setting was changed, each to a value on the edge of its domain
C14_Witness ==
    /\ bomb_settings.difficulty = Easy
    /\ bomb_settings.timer = 60
    /\ bomb_settings.minimum_time = 10
    /\ bomb_settings.lives = 5

----------------------------------------------------------------------------
(* Properties of the countdown's decay, of on_close and of the lifecycle.  *)

\* C15: on_word_used never increases timer: it subtracts what the time since
\* bomb_start_time exceeds minimum_time by, and nothing when it does not
\* (timer 30, minimum_time 5: 12 elapsed give 23, 3 elapsed give 30).
C15_Decay ==
    [][ \A message \in TurnMessages :
          on_word_used(message) =>
            LET elapsed == clock - bomb_start_time
                grace == bomb_settings.minimum_time
            IN /\ timer' <= timer
               /\ elapsed <= grace => timer' = timer
               /\ elapsed > grace => timer' = timer - (elapsed - grace)
               /\ (timer = 30 /\ grace = 5 /\ elapsed = 12) => timer' = 23
               /\ (timer = 30 /\ grace = 5 /\ elapsed = 3) => timer' = 30 ]_vars

\* a word came 12 ticks after the start of a countdown of 30 with 5 of grace
C15_Witness ==
    /\ started /\ pc = "idle"
    /\ bomb_settings.timer = 30 /\ bomb_settings.minimum_time = 5
    /\ clock - bomb_start_time = 12
    /\ Len(used_words) = 1
    /\ timer = 23

\* C16: after on_close the game is as it is after construction: both flags
\* false, party, turn_order and used_words empty, current_player_index 0,
\* current_letters empty, bomb_start_time 0, timer 30, the settings at their
\* defaults (medium, 30, 5, 3).
C16_CloseResets ==
    [][ on_close =>
          /\ in_progress' = FALSE /\ started' = FALSE
          /\ DOMAIN party' = {} /\ turn_order' = <<>> /\ used_words' = <<>>
          /\ current_player_index' = 0
          /\ current_letters' = <<>>
          /\ bomb_start_time' = 0
          /\ timer' = 30
          /\ bomb_settings'.difficulty = Medium
          /\ bomb_settings'.timer = 30
          /\ bomb_settings'.minimum_time = 5
          /\ bomb_settings'.lives = 3 ]_vars

\* a game about to be closed in which nothing is as it was after construction
C16_Witness ==
    /\ pc = "idle"
    /\ in_progress /\ started
    /\ DOMAIN party # {} /\ turn_order # <<>> /\ used_words # <<>>
    /\ current_player_index # 0
    /\ current_letters # <<>>
    /\ bomb_start_time # 0
    /\ timer # 30
    /\ bomb_settings.difficulty # Medium
    /\ bomb_settings.timer # 30
    /\ bomb_settings.minimum_time # 5
    /\ bomb_settings.lives # 3

\* C17: started becomes true only where in_progress is true already, so in
\* every reachable state started implies in_progress.
C17_StartedImpliesInProgress == started => in_progress

----------------------------------------------------------------------------
(* Properties of check_message, of the guard of next_player and of the     *)
(* members of the turn order.                                              *)

\* the word is in used_words
Used(word) == \E i \in 1..Len(used_words) : used_words[i] = word

\* C18: check_message fails as already used when the lowercased text is in
\* used_words, else as missing the letters when current_letters is not part
\* of it, else as the letters themselves when it equals current_letters, and
\* else succeeds; so a recorded word is rejected in every casing.
C18_CheckMessage ==
    \A message \in Messages :
        LET text == Lower(message) IN
        /\ Used(text) => check_message(message) = "already_used"
        /\ (~Used(text) /\ ~Contains(text, current_letters))
              => check_message(message) = "missing_letters"
        /\ (~Used(text) /\ Contains(text, current_letters) /\ text = current_letters)
              => check_message(message) = "letters_itself"
        /\ (~Used(text) /\ Contains(text, current_letters) /\ text # current_letters)
              => check_message(message) = "ok"
        /\ \A other \in Messages :
              (Used(text) /\ Lower(other) = text)
                 => check_message(other) = "already_used"

\* "cab" was recorded under the letters "ab": "Cab" is turned down as used,
\* "ab" as the letters themselves
C18_Witness ==
    /\ current_letters = <<"a","b">>
    /\ used_words = << <<"c","a","b">> >>
    /\ check_message(<<"C","a","b">>) = "already_used"
    /\ check_message(<<"a","b">>) = "letters_itself"

\* C19: in every state after on_start in which get_winner returns none, a
\* call of next_player terminates.
C19_NoWinnerGuardsNextPlayer ==
    (started /\ pc = "next_player" /\ Len(turn_order) >= 2 /\ get_winner = NoUser)
        ~> (pc = "idle")

\* C20: between on_start and on_close the users in turn_order are exactly
\* the keys of the party (here: in a game started with two players or more).
C20_TurnOrderIsParty ==
    (started /\ Len(turn_order) >= 2)
        => { turn_order[i] : i \in 1..Len(turn_order) } = DOMAIN party

====
